---- MODULE Spec2Model ----
(***************************************************************************)
(* Text buffer and point engine of src/src/buffer.rs: one Buffer (a rope,  *)
(* the modified flag) shared behind Arc<Mutex<..>> by several BufferViews, *)
(* each holding its own point (a Range<usize> of character offsets).       *)
(*                                                                         *)
(* Spec is the sequential program: one thread of control calls the public  *)
(* BufferView operations on the views in any order.  A panic (a failed     *)
(* assert!, an out-of-bounds rope index) aborts that thread, so no further *)
(* operation follows it.                                                   *)
(***************************************************************************)
EXTENDS Integers, Sequences, FiniteSets, TLC

\* ------------------------------------------------------------- bounds
\* Longest rope content explored, in characters.
MaxLen == 3
\* Longest text handed to insert_at_point, in characters.
MaxText == 2

\* Characters of the explored texts; "\n" is the line break ropey counts
\* (its other breaks, such as CR LF and U+2028, are not among the explored
\* characters).
Chars == {"a", "b", "\n"}
\* The BufferViews bound to the one shared Buffer.
Views == {"A", "B"}
\* Arguments given to goto_char / goto_line: every valid index and some past the end.
Args == 0..(MaxLen + 2)

RECURSIVE SeqsUpTo(_)
SeqsUpTo(n) ==
    IF n = 0 THEN {<<>>}
    ELSE LET S == SeqsUpTo(n - 1)
         IN S \cup {Append(s, c) : s \in {x \in S : Len(x) = n - 1}, c \in Chars}
Ropes == SeqsUpTo(MaxLen)
Texts == SeqsUpTo(MaxText) \ {<<>>}

min(a, b) == IF a <= b THEN a ELSE b

\* ------------------------------------------------------------- ropey::Rope
len_chars(r) == Len(r)

\* Number of line breaks among the first idx characters of r.
BreaksBefore(r, idx) == Cardinality({i \in 1..min(idx, Len(r)) : r[i] = "\n"})

\* Rope::len_lines: the line breaks plus one (an empty rope has one line).
len_lines(r) == BreaksBefore(r, Len(r)) + 1

\* Rope::char_to_line panics when char_idx > len_chars.
char_to_line_ok(r, char_idx) == char_idx <= len_chars(r)
\* One past the end is valid and gives the last line.
char_to_line(r, char_idx) == BreaksBefore(r, char_idx)

\* Rope::line_to_char panics when line_idx > len_lines.
line_to_char_ok(r, line_idx) == line_idx <= len_lines(r)
\* Offset of the first character of line line_idx; one past the last line
\* gives one past the last character.
line_to_char(r, line_idx) ==
    IF line_idx = 0 THEN 0
    ELSE IF line_idx >= len_lines(r) THEN len_chars(r)
    ELSE CHOOSE i \in 1..Len(r) : r[i] = "\n" /\ BreaksBefore(r, i) = line_idx

\* Mutant: the inserted text does not reach the shared rope.
rope_insert_dropped(r, char_idx, text) == r

\* Rope::insert panics when char_idx > len_chars.
rope_insert_ok(r, char_idx) == char_idx <= len_chars(r)
rope_insert(r, char_idx, text) ==
    SubSeq(r, 1, char_idx) \o text \o SubSeq(r, char_idx + 1, Len(r))

\* Rope::remove panics when the range is reversed or ends past len_chars.
rope_remove_ok(r, from, to) == from <= to /\ to <= len_chars(r)
rope_remove(r, from, to) == SubSeq(r, 1, from) \o SubSeq(r, to + 1, Len(r))

\* ------------------------------------------------------------- state
VARIABLES
    rope,         \* Buffer.rope: the content, a sequence of characters
    is_modified,  \* Buffer.is_modified
    path,         \* Buffer.path: None, or the file the buffer was loaded from
    point,        \* point[v]: BufferView.point of view v, [start, end]
    panicked,     \* "none", or the kind of panic that ended the thread
    disk,         \* disk[p]: the file at path p
    result,       \* what the last call returned
    last,         \* the last operation called (its name, view and argument)
    mutex,        \* mutex[s]: the Mutex of shared buffer s, [locked, poisoned]
    buffers,      \* buffers[s]: the Buffer inside mutex[s], [path, rope, is_modified]
    views         \* views[t]: the BufferView that thread t drives, and where t is in it

vars == <<rope, is_modified, path, point, panicked, disk, result, last,
          mutex, buffers, views>>

\* The variables of the threaded program (see "threads" below).
lockvars == <<mutex, buffers, views>>

\* The variables of the program run by one thread.
seqvars == <<rope, is_modified, path, point, panicked, disk, result, last>>

Point(s, e) == [start |-> s, end |-> e]

\* Option<PathBuf>: no path, or the explored path.
None == "None"
Paths == {"p"}

\* A file: whether it exists, its bytes, and whether the last write to it
\* stopped midway (File::create had truncated it, only a prefix followed).
NoFile == [exists |-> FALSE, bytes |-> <<>>, torn |-> FALSE]
File(bytes) == [exists |-> TRUE, bytes |-> bytes, torn |-> FALSE]
TornFile(bytes) == [exists |-> TRUE, bytes |-> bytes, torn |-> TRUE]
NoDisk == [p \in Paths |-> NoFile]

\* Buffer::new
Buffer_new == [path |-> None, rope |-> <<>>, is_modified |-> FALSE]

\* Buffer::from_string
Buffer_from_string(string) == [path |-> None, rope |-> string, is_modified |-> FALSE]

\* BufferView::new: the point of a new view.
BufferView_new == Point(0, 0)

\* The shared Buffer is b.
StoreIs(b) ==
    /\ rope = b.rope
    /\ path = b.path
    /\ is_modified = b.is_modified

\* What a call returns: nothing (unit), Ok(()), Err(..), or Ok(Buffer).
Result(kind) == [kind |-> kind, buffer |-> Buffer_new]
Loaded(b) == [kind |-> "buffer", buffer |-> b]
NoResult == Result("none")

\* The call being made: the operation, the view it is called on, its argument,
\* and len_chars at the time of the call.
Called(op, v, n, text) ==
    [op |-> op, v |-> v, n |-> n, text |-> text,
     path |-> None, io |-> "none", len |-> Len(rope)]

\* A call on the Buffer itself that names a path; io is what the file system did.
CalledIO(op, p, io) ==
    [op |-> op, v |-> "A", n |-> 0, text |-> <<>>,
     path |-> p, io |-> io, len |-> Len(rope)]

NoCall ==
    [op |-> "new", v |-> "A", n |-> 0, text |-> <<>>,
     path |-> None, io |-> "none", len |-> 0]

FromString(string) ==
    [op |-> "from_string", v |-> "A", n |-> 0, text |-> string,
     path |-> None, io |-> "none", len |-> 0]

\* The threads, each driving a BufferView of its own, and the shared buffers
\* (each an Arc<Mutex<Buffer>>): T1 and T2 hold clones of X, T3 holds Y.
Threads == {"T1", "T2", "T3"}
Stores == {"X", "Y"}
BufferOf(t) == IF t = "T3" THEN "Y" ELSE "X"

\* Mutex::new(buffer): unlocked, not poisoned.
Mutex_new == [locked |-> FALSE, poisoned |-> FALSE]

\* A thread between two calls on its view: pc is where the thread is, in says
\* that the lock() call of that place has returned, guard that the thread owns
\* a MutexGuard, n is the local the operation carries from one statement to
\* the next (line_idx, len, or the argument), child the process it spawned,
\* out how its last call ended.
Idle(p, out) ==
    [point |-> p, pc |-> "idle", in |-> FALSE, guard |-> FALSE,
     n |-> 0, child |-> "none", out |-> out]

\* No thread has been started: new mutexes around empty buffers, new views.
LockIdle ==
    /\ mutex = [s \in Stores |-> Mutex_new]
    /\ buffers = [s \in Stores |-> Buffer_new]
    /\ views = [t \in Threads |-> Idle(BufferView_new, "none")]

\* Buffer::new / Buffer::from_string, then BufferView::new for every view.
Init ==
    /\ LockIdle
    /\ \/ StoreIs(Buffer_new) /\ last = NoCall
       \/ \E string \in Ropes :
            StoreIs(Buffer_from_string(string)) /\ last = FromString(string)
    /\ point = [v \in Views |-> BufferView_new]
    /\ panicked = "none"
    /\ disk = NoDisk
    /\ result = NoResult

Running == panicked = "none"

\* Mutant: the point of every view is moved.
Moves_every_view(v, p) ==
    /\ point' = [w \in Views |-> p]
    /\ result' = NoResult
    /\ UNCHANGED <<rope, is_modified, path, panicked, disk, mutex, buffers, views>>

\* The operation returns: only the point of the view it was called on moves.
Moves(v, p) ==
    /\ point' = [point EXCEPT ![v] = p]
    /\ result' = NoResult
    /\ UNCHANGED <<rope, is_modified, path, panicked, disk, mutex, buffers, views>>

\* The operation panics: the thread unwinds, nothing else is written.
Panics(kind) ==
    /\ panicked' = kind
    /\ result' = NoResult
    /\ UNCHANGED <<rope, is_modified, path, point, disk, mutex, buffers, views>>

\* ------------------------------------------------------------- movement
\* Mutant: the comparison with len_chars is off by one.
forward_char_off_by_one(r, p) ==
    IF p.end <= len_chars(r) THEN Point(p.end + 1, p.end + 1) ELSE p

forward_char(r, p) ==
    IF p.end < len_chars(r) THEN Point(p.end + 1, p.end + 1) ELSE p

move_point_forward_char(v) ==
    /\ Running
    /\ last' = Called("move_point_forward_char", v, 0, <<>>)
    /\ Moves(v, forward_char(rope, point[v]))

\* Mutant: start is decremented without the check start > 0.
backward_char_unchecked(p) == Point(p.start - 1, p.start - 1)

backward_char(p) ==
    IF p.start > 0 THEN Point(p.start - 1, p.start - 1) ELSE p

move_point_backward_char(v) ==
    /\ Running
    /\ last' = Called("move_point_backward_char", v, 0, <<>>)
    /\ Moves(v, backward_char(point[v]))

\* Mutant: the index is not clamped to len_chars.
goto_char_idx_unclamped(r, char_idx) == char_idx

goto_char_idx(r, char_idx) == min(char_idx, len_chars(r))

goto_char(v, char_idx) ==
    /\ Running
    /\ last' = Called("goto_char", v, char_idx, <<>>)
    /\ Moves(v, Point(goto_char_idx(rope, char_idx), goto_char_idx(rope, char_idx)))

\* Mutant: the line index is not clamped to len_lines.
goto_line_arg_unclamped(r, line_idx) == line_idx

\* Mutant: the line index is clamped to the last line, len_lines - 1.
goto_line_arg_last_line(r, line_idx) == min(len_lines(r) - 1, line_idx)

\* The line index goto_line hands to line_to_char.
goto_line_arg(r, line_idx) == min(len_lines(r), line_idx)

goto_line_idx(r, line_idx) == line_to_char(r, goto_line_arg(r, line_idx))

goto_line(v, line_idx) ==
    /\ Running
    /\ last' = Called("goto_line", v, line_idx, <<>>)
    /\ IF line_to_char_ok(rope, goto_line_arg(rope, line_idx))
       THEN Moves(v, Point(goto_line_idx(rope, line_idx), goto_line_idx(rope, line_idx)))
       ELSE Panics("index")

goto_end_of_buffer(v) ==
    /\ Running
    /\ last' = Called("goto_end_of_buffer", v, 0, <<>>)
    /\ LET len == len_chars(rope)
       IN Moves(v, Point(goto_char_idx(rope, len), goto_char_idx(rope, len)))

goto_start_of_buffer(v) ==
    /\ Running
    /\ last' = Called("goto_start_of_buffer", v, 0, <<>>)
    /\ Moves(v, Point(goto_char_idx(rope, 0), goto_char_idx(rope, 0)))

\* Mutant: line 0 is not treated apart.
end_of_line_idx_every_line(r, line_idx) == line_to_char(r, line_idx + 1) - 1

\* The offset move_point_end_of_line computes from the line of point.end.
end_of_line_idx(r, line_idx) ==
    IF line_idx = 0 THEN len_chars(r) ELSE line_to_char(r, line_idx + 1) - 1

move_point_end_of_line(v) ==
    /\ Running
    /\ last' = Called("move_point_end_of_line", v, 0, <<>>)
    /\ IF ~char_to_line_ok(rope, point[v].end)
       THEN Panics("index")
       ELSE LET line_idx == char_to_line(rope, point[v].end)
            IN IF line_idx # 0 /\ ~line_to_char_ok(rope, line_idx + 1)
               THEN Panics("index")
               ELSE IF end_of_line_idx(rope, line_idx) < 0
               THEN Panics("overflow")
               ELSE Moves(v, Point(end_of_line_idx(rope, line_idx),
                                   end_of_line_idx(rope, line_idx)))

start_of_line_idx(r, p) == goto_line_idx(r, char_to_line(r, p.start))

move_point_start_of_line(v) ==
    /\ Running
    /\ last' = Called("move_point_start_of_line", v, 0, <<>>)
    /\ IF ~char_to_line_ok(rope, point[v].start)
       THEN Panics("index")
       ELSE IF ~line_to_char_ok(rope, goto_line_arg(rope, char_to_line(rope, point[v].start)))
       THEN Panics("index")
       ELSE Moves(v, Point(start_of_line_idx(rope, point[v]),
                           start_of_line_idx(rope, point[v])))

\* ------------------------------------------------------------- editing
\* Mutant: the point advances by one, not by the inserted character count.
insert_point_by_one(p, text) == Point(p.start + 1, p.start + 1)

insert_point(p, text) == Point(p.start + Len(text), p.start + Len(text))

\* Mutant: is_modified is not set.
insert_at_point_unflagged(v, text) ==
    /\ Running
    /\ Len(rope) + Len(text) <= MaxLen
    /\ last' = Called("insert_at_point", v, 0, text)
    /\ IF rope_insert_ok(rope, point[v].start)
       THEN /\ rope' = rope_insert(rope, point[v].start, text)
            /\ point' = [point EXCEPT ![v] = insert_point(point[v], text)]
            /\ result' = NoResult
            /\ UNCHANGED <<is_modified, path, panicked, disk, mutex, buffers, views>>
       ELSE Panics("index")

insert_at_point(v, text) ==
    /\ Running
    /\ Len(rope) + Len(text) <= MaxLen
    /\ last' = Called("insert_at_point", v, 0, text)
    /\ IF rope_insert_ok(rope, point[v].start)
       THEN /\ rope' = rope_insert(rope, point[v].start, text)
            /\ point' = [point EXCEPT ![v] = insert_point(point[v], text)]
            /\ is_modified' = TRUE
            /\ result' = NoResult
            /\ UNCHANGED <<path, panicked, disk, mutex, buffers, views>>
       ELSE Panics("index")

\* Mutant: the assertion excludes the end of the buffer.
delete_assert_strict(r, p) == p.end < len_chars(r)

\* The assertion delete_at_point makes before it touches the rope.
delete_assert(r, p) == p.end <= len_chars(r)

\* Mutant: the end of the removed range is not clamped to len_chars.
delete_to_unclamped(r, p) ==
    IF p.start = p.end THEN p.end + 1 ELSE p.end

\* The end of the range delete_at_point removes.
delete_to(r, p) ==
    IF p.start = p.end THEN min(len_chars(r), p.end + 1) ELSE p.end

\* Mutant: is_modified is not set.
delete_at_point_unflagged(v) ==
    /\ Running
    /\ last' = Called("delete_at_point", v, 0, <<>>)
    /\ IF ~delete_assert(rope, point[v])
       THEN Panics("assert")
       ELSE IF ~rope_remove_ok(rope, point[v].start, delete_to(rope, point[v]))
       THEN Panics("index")
       ELSE /\ rope' = rope_remove(rope, point[v].start, delete_to(rope, point[v]))
            /\ result' = NoResult
            /\ UNCHANGED <<is_modified, path, point, panicked, disk, mutex, buffers, views>>

\* Mutant: every view's point is clamped to the new len_chars.
delete_at_point_clamping(v) ==
    /\ Running
    /\ last' = Called("delete_at_point", v, 0, <<>>)
    /\ IF ~delete_assert(rope, point[v])
       THEN Panics("assert")
       ELSE IF ~rope_remove_ok(rope, point[v].start, delete_to(rope, point[v]))
       THEN Panics("index")
       ELSE /\ rope' = rope_remove(rope, point[v].start, delete_to(rope, point[v]))
            /\ is_modified' = TRUE
            /\ point' = [w \in Views |->
                            Point(min(point[w].start, Len(rope')),
                                  min(point[w].end, Len(rope')))]
            /\ result' = NoResult
            /\ UNCHANGED <<path, panicked, disk, mutex, buffers, views>>

delete_at_point(v) ==
    /\ Running
    /\ last' = Called("delete_at_point", v, 0, <<>>)
    /\ IF ~delete_assert(rope, point[v])
       THEN Panics("assert")
       ELSE IF ~rope_remove_ok(rope, point[v].start, delete_to(rope, point[v]))
       THEN Panics("index")
       ELSE /\ rope' = rope_remove(rope, point[v].start, delete_to(rope, point[v]))
            /\ is_modified' = TRUE
            /\ result' = NoResult
            /\ UNCHANGED <<path, point, panicked, disk, mutex, buffers, views>>

\* ------------------------------------------------------------- files
\* Mutant: a line break is written as CR LF.
Utf8_crlf(c) ==
    CASE c = "a" -> <<97>>
      [] c = "b" -> <<98>>
      [] c = "\n" -> <<13, 10>>
      [] c = "\r" -> <<13>>
      [] OTHER -> <<63>>

\* The UTF-8 bytes of a character, as Rope::write_to writes them.
Utf8(c) ==
    CASE c = "a" -> <<97>>
      [] c = "b" -> <<98>>
      [] c = "\n" -> <<10>>
      [] c = "\r" -> <<13>>
      [] OTHER -> <<63>>

\* Rope::write_to: the bytes of the whole content, in order.
RECURSIVE Encode(_)
Encode(r) == IF r = <<>> THEN <<>> ELSE Utf8(Head(r)) \o Encode(Tail(r))

\* Rope::from_reader fails on bytes that are not UTF-8; of the byte values
\* explored, those below 128 are one character each.
DecodeOk(bytes) == \A i \in 1..Len(bytes) : bytes[i] < 128

CharOf(byte) ==
    CASE byte = 97 -> "a"
      [] byte = 98 -> "b"
      [] byte = 10 -> "\n"
      [] byte = 13 -> "\r"
      [] OTHER -> "?"

\* Rope::from_reader: the characters of the bytes read.
Decode(bytes) == [i \in 1..Len(bytes) |-> CharOf(bytes[i])]

\* Mutant: the loaded buffer counts as modified.
Buffer_load_modified(p, bytes) ==
    [path |-> p, rope |-> Decode(bytes), is_modified |-> TRUE]

\* Buffer::load, once the file is open and read.
Buffer_load(p, bytes) ==
    [path |-> p, rope |-> Decode(bytes), is_modified |-> FALSE]

\* Buffer::load: File::open fails on a missing file, Rope::from_reader on
\* undecodable bytes; both come back as Err.
load_result(d, p) ==
    IF ~d[p].exists \/ ~DecodeOk(d[p].bytes)
    THEN Result("err")
    ELSE Loaded(Buffer_load(p, d[p].bytes))

load(p) ==
    /\ Running
    /\ last' = CalledIO("load", p, IF disk[p].exists THEN "ok" ELSE "open_failed")
    /\ result' = load_result(disk, p)
    /\ UNCHANGED <<rope, is_modified, path, point, panicked, disk, mutex, buffers, views>>

\* What the file system does with a save, and what save_as returns for it.
\* File::create may fail (Err, the file untouched).  Once created the file is
\* empty; the bytes go through a BufWriter that Rope::write_to drops, so a
\* write that fails while write_to runs comes back as Err, and one that fails
\* in the flush of the drop is not reported: save_as returns Ok.
SaveOutcomes ==
    {<<"ok", "ok">>, <<"create_failed", "err">>,
     <<"write_failed", "err">>, <<"write_failed", "ok">>}

\* File::create(path) followed by rope.write_to(writer).
WriteTo(p, io) ==
    \/ /\ io = "create_failed"
       /\ disk' = disk
    \/ /\ io = "ok"
       /\ disk' = [disk EXCEPT ![p] = File(Encode(rope))]
    \/ /\ io = "write_failed"
       /\ \E k \in 0..(Len(Encode(rope)) - 1) :
            disk' = [disk EXCEPT ![p] = TornFile(SubSeq(Encode(rope), 1, k))]

\* Buffer::save_as takes &self: the buffer is not written.
save_as(p) ==
    /\ Running
    /\ \E o \in SaveOutcomes :
        /\ last' = CalledIO("save_as", p, o[1])
        /\ WriteTo(p, o[1])
        /\ result' = Result(o[2])
    /\ UNCHANGED <<rope, is_modified, path, point, panicked, mutex, buffers, views>>

\* Buffer::save takes &self as well.
save ==
    /\ Running
    /\ IF ~is_modified \/ path = None
       THEN /\ last' = CalledIO("save", path, "none")
            /\ result' = Result("ok")
            /\ disk' = disk
       ELSE \E o \in SaveOutcomes :
            /\ last' = CalledIO("save", path, o[1])
            /\ WriteTo(path, o[1])
            /\ result' = Result(o[2])
    /\ UNCHANGED <<rope, is_modified, path, point, panicked, mutex, buffers, views>>

\* BufferView::new on the shared buffer, replacing view v.
view_new(v) ==
    /\ Running
    /\ last' = Called("view_new", v, 0, <<>>)
    /\ Moves(v, BufferView_new)

\* ------------------------------------------------------------- program
Next ==
    \E v \in Views :
        \/ move_point_forward_char(v)
        \/ move_point_backward_char(v)
        \/ move_point_end_of_line(v)
        \/ move_point_start_of_line(v)
        \/ \E char_idx \in Args : goto_char(v, char_idx)
        \/ \E line_idx \in Args : goto_line(v, line_idx)
        \/ goto_end_of_buffer(v)
        \/ goto_start_of_buffer(v)
        \/ \E text \in Texts : insert_at_point(v, text)
        \/ delete_at_point(v)

Spec == Init /\ [][Next]_vars

\* The program of a buffer that has one view only.
NextOne ==
    \/ move_point_forward_char("A")
    \/ move_point_backward_char("A")
    \/ move_point_end_of_line("A")
    \/ move_point_start_of_line("A")
    \/ \E char_idx \in Args : goto_char("A", char_idx)
    \/ \E line_idx \in Args : goto_line("A", line_idx)
    \/ goto_end_of_buffer("A")
    \/ goto_start_of_buffer("A")
    \/ \E text \in Texts : insert_at_point("A", text)
    \/ delete_at_point("A")

SpecOne == Init /\ [][NextOne]_vars

\* The same program started with selections: every view holds some in-range
\* point, collapsed or not (Point is a Range<usize>; delete_at_point branches
\* on point.start == point.end).
InRangePoints(r) ==
    {Point(s, e) : s \in 0..len_chars(r), e \in 0..len_chars(r)} \cap
    {p \in [start : 0..MaxLen, end : 0..MaxLen] : p.start <= p.end}

InitSel ==
    /\ LockIdle
    /\ \E string \in Ropes :
        StoreIs(Buffer_from_string(string)) /\ last = FromString(string)
    /\ point \in [Views -> InRangePoints(rope)]
    /\ panicked = "none"
    /\ disk = NoDisk
    /\ result = NoResult

SpecSel == InitSel /\ [][Next]_vars

\* The program with its files: the buffer is made by Buffer::new,
\* Buffer::from_string or Buffer::load, edited through the views, saved and
\* loaded again.
\* Its contents stay one character shorter than MaxLen, one view edits, and
\* goto_char / goto_line are called with an index inside and one past the end.
FileRopes == {r \in Ropes : Len(r) <= MaxLen - 1}
FileViews == {"A"}
FileArgs == {1, MaxLen + 2}

InitFile ==
    /\ LockIdle
    /\ \/ /\ disk = NoDisk
          /\ result = NoResult
          /\ \/ StoreIs(Buffer_new) /\ last = NoCall
             \/ \E string \in FileRopes :
                  StoreIs(Buffer_from_string(string)) /\ last = FromString(string)
       \/ \E string \in FileRopes, p \in Paths :
          /\ disk = [NoDisk EXCEPT ![p] = File(Encode(string))]
          /\ result = load_result(disk, p)
          /\ StoreIs(result.buffer)
          /\ last = [CalledIO("load", p, "ok") EXCEPT !.len = 0]
    /\ point = [v \in Views |-> BufferView_new]
    /\ panicked = "none"

NextFile ==
    \/ \E v \in FileViews :
        \/ view_new(v)
        \/ move_point_forward_char(v)
        \/ move_point_backward_char(v)
        \/ move_point_end_of_line(v)
        \/ move_point_start_of_line(v)
        \/ \E char_idx \in FileArgs : goto_char(v, char_idx)
        \/ \E line_idx \in FileArgs : goto_line(v, line_idx)
        \/ goto_end_of_buffer(v)
        \/ goto_start_of_buffer(v)
        \/ \E text \in Texts : Len(rope) + Len(text) < MaxLen /\ insert_at_point(v, text)
        \/ delete_at_point(v)
    \/ save
    \/ \E p \in Paths : save_as(p)
    \/ \E p \in Paths : load(p)

SpecFile == InitFile /\ [][NextFile]_vars

\* ------------------------------------------------------------- threads
\* The program with threads: every thread drives its own BufferView, a call is
\* made of the steps between which other threads can run: the lock() call, and
\* the statements made while the MutexGuard lives.  Contents are made of "a"
\* and "\n" and stay one character shorter than MaxLen.
LockChars == {"a", "\n"}
LockRopes == {r \in FileRopes : \A i \in 1..Len(r) : r[i] \in LockChars}
LockTexts == {<<c>> : c \in LockChars}

\* The calls a thread makes: where the operation starts, and its argument.
Entries ==
    {<<pc, 0>> : pc \in {"forward_char", "end_of_line", "start_of_line",
                         "goto_end", "goto_char", "insert", "delete",
                         "shell", "buffer"}}
    \cup {<<pc, n>> : pc \in {"goto_char", "goto_line"}, n \in FileArgs}

\* T1 makes every call; T2, which shares X with T1, and T3, alone on Y, edit.
Menu(t) ==
    IF t = "T1" THEN Entries ELSE {<<pc, 0>> : pc \in {"insert", "delete"}}

\* The longest content explored in a buffer.
Cap(s) == IF s = "X" THEN MaxLen - 1 ELSE MaxLen - 2

TheRope(t) == buffers[BufferOf(t)].rope

\* Threads of the same buffer that have called insert_at_point and not yet inserted.
Inserting(s) == {u \in Threads : BufferOf(u) = s /\ views[u].pc = "insert"}

\* Mutant: one lock for all buffers.
lock_blocks_any(s) == \E x \in Stores : mutex[x].locked

\* Mutant: lock() never waits.
lock_blocks_never(s) == FALSE

\* Mutex::lock blocks while the mutex of this buffer is locked.
lock_blocks(s) == mutex[s].locked

\* A thread calls an operation of its view: the operation starts at its first
\* statement; goto_start_of_buffer is goto_char(0).
call(t, pc, n) ==
    /\ views[t].pc = "idle"
    /\ ~views[t].guard
    /\ pc = "insert" =>
         Len(TheRope(t)) + Cardinality(Inserting(BufferOf(t))) < Cap(BufferOf(t))
    /\ views' = [views EXCEPT ![t] = [@ EXCEPT !.pc = pc, !.n = n, !.out = "none"]]
    /\ UNCHANGED <<mutex, buffers>>
    /\ UNCHANGED seqvars

\* move_point_backward_char: takes no lock.
backward_char_call(t) ==
    /\ views[t].pc = "idle"
    /\ ~views[t].guard
    /\ views' = [views EXCEPT ![t] = Idle(backward_char(@.point), "returned")]
    /\ UNCHANGED <<mutex, buffers>>
    /\ UNCHANGED seqvars

\* self.buffer.lock().unwrap(): waits for the mutex; on a poisoned mutex
\* lock() returns Err and unwrap() panics (the guard inside the error is
\* dropped at once).
lock_unwrap(t) ==
    /\ views[t].pc # "idle"
    /\ ~views[t].in
    /\ ~lock_blocks(BufferOf(t))
    /\ IF mutex[BufferOf(t)].poisoned
       THEN /\ views' = [views EXCEPT ![t] = Idle(@.point, "panicked")]
            /\ UNCHANGED mutex
       ELSE /\ mutex' = [mutex EXCEPT ![BufferOf(t)].locked = TRUE]
            /\ views' = [views EXCEPT ![t] = [@ EXCEPT !.in = TRUE, !.guard = TRUE]]
    /\ UNCHANGED buffers
    /\ UNCHANGED seqvars

\* The thread is in the statements that follow the lock() of pc.
In(t, pc) == views[t].pc = pc /\ views[t].in

Unlock(s) == mutex' = [mutex EXCEPT ![s].locked = FALSE]

\* The operation returns and its guard is dropped.
Returns(t, p, out) ==
    /\ views' = [views EXCEPT ![t] = Idle(p, out)]
    /\ Unlock(BufferOf(t))

\* Mutant: unwinding unlocks the mutex without poisoning it.
Unwinds_unpoisoned(t) ==
    /\ views' = [views EXCEPT ![t] = Idle(@.point, "panicked")]
    /\ mutex' = [mutex EXCEPT ![BufferOf(t)].locked = FALSE]

\* The operation panics while its guard lives: the guard is dropped during
\* unwinding, which poisons the mutex.
Unwinds(t) ==
    /\ views' = [views EXCEPT ![t] = Idle(@.point, "panicked")]
    /\ mutex' = [mutex EXCEPT ![BufferOf(t)] = [locked |-> FALSE, poisoned |-> TRUE]]

\* The statement ends, its temporary guard is dropped, and the operation goes
\* on to its next lock().
Continues(t, pc, n) ==
    /\ views' = [views EXCEPT ![t] =
                    [@ EXCEPT !.pc = pc, !.in = FALSE, !.guard = FALSE, !.n = n]]
    /\ Unlock(BufferOf(t))

forward_char_locked(t) ==
    /\ In(t, "forward_char")
    /\ Returns(t, forward_char(TheRope(t), views[t].point), "returned")
    /\ UNCHANGED buffers
    /\ UNCHANGED seqvars

\* move_point_end_of_line, first statement: line_idx.
end_of_line_first(t) ==
    /\ In(t, "end_of_line")
    /\ IF char_to_line_ok(TheRope(t), views[t].point.end)
       THEN Continues(t, "end_of_line_idx", char_to_line(TheRope(t), views[t].point.end))
       ELSE Unwinds(t)
    /\ UNCHANGED buffers
    /\ UNCHANGED seqvars

\* move_point_end_of_line, second statement: idx, under a new lock.
end_of_line_second(t) ==
    /\ In(t, "end_of_line_idx")
    /\ IF views[t].n # 0 /\ ~line_to_char_ok(TheRope(t), views[t].n + 1)
       THEN Unwinds(t)
       ELSE IF end_of_line_idx(TheRope(t), views[t].n) < 0
       THEN Unwinds(t)
       ELSE Returns(t, Point(end_of_line_idx(TheRope(t), views[t].n),
                             end_of_line_idx(TheRope(t), views[t].n)), "returned")
    /\ UNCHANGED buffers
    /\ UNCHANGED seqvars

\* move_point_start_of_line, first statement: line_idx, then goto_line(line_idx).
start_of_line_first(t) ==
    /\ In(t, "start_of_line")
    /\ IF char_to_line_ok(TheRope(t), views[t].point.start)
       THEN Continues(t, "goto_line", char_to_line(TheRope(t), views[t].point.start))
       ELSE Unwinds(t)
    /\ UNCHANGED buffers
    /\ UNCHANGED seqvars

goto_line_locked(t) ==
    /\ In(t, "goto_line")
    /\ IF ~line_to_char_ok(TheRope(t), goto_line_arg(TheRope(t), views[t].n))
       THEN Unwinds(t)
       ELSE Returns(t, Point(goto_line_idx(TheRope(t), views[t].n),
                             goto_line_idx(TheRope(t), views[t].n)), "returned")
    /\ UNCHANGED buffers
    /\ UNCHANGED seqvars

\* goto_end_of_buffer, first statement: len, then goto_char(len).
goto_end_first(t) ==
    /\ In(t, "goto_end")
    /\ Continues(t, "goto_char", len_chars(TheRope(t)))
    /\ UNCHANGED buffers
    /\ UNCHANGED seqvars

goto_char_locked(t) ==
    /\ In(t, "goto_char")
    /\ Returns(t, Point(goto_char_idx(TheRope(t), views[t].n),
                        goto_char_idx(TheRope(t), views[t].n)), "returned")
    /\ UNCHANGED buffers
    /\ UNCHANGED seqvars

insert_locked(t) ==
    /\ In(t, "insert")
    /\ \E text \in LockTexts :
        IF rope_insert_ok(TheRope(t), views[t].point.start)
        THEN /\ buffers' = [buffers EXCEPT ![BufferOf(t)] =
                    [@ EXCEPT !.rope = rope_insert(@, views[t].point.start, text),
                              !.is_modified = TRUE]]
             /\ Returns(t, insert_point(views[t].point, text), "returned")
        ELSE /\ Unwinds(t)
             /\ UNCHANGED buffers
    /\ UNCHANGED seqvars

delete_locked(t) ==
    /\ In(t, "delete")
    /\ IF ~delete_assert(TheRope(t), views[t].point)
       THEN Unwinds(t) /\ UNCHANGED buffers
       ELSE IF ~rope_remove_ok(TheRope(t), views[t].point.start,
                               delete_to(TheRope(t), views[t].point))
       THEN Unwinds(t) /\ UNCHANGED buffers
       ELSE /\ buffers' = [buffers EXCEPT ![BufferOf(t)] =
                    [@ EXCEPT !.rope = rope_remove(@, views[t].point.start,
                                            delete_to(TheRope(t), views[t].point)),
                              !.is_modified = TRUE]]
            /\ Returns(t, views[t].point, "returned")
    /\ UNCHANGED seqvars

\* Mutant: the guard is dropped once the text is extracted.
shell_extract_unlocked(t) ==
    /\ In(t, "shell")
    /\ IF line_to_char_ok(TheRope(t), 1) /\ line_to_char_ok(TheRope(t), 2)
       THEN \/ /\ views' = [views EXCEPT ![t] =
                    [@ EXCEPT !.pc = "shell_wait", !.child = "running",
                              !.guard = FALSE]]
               /\ Unlock(BufferOf(t))
            \/ Returns(t, views[t].point, "err")
       ELSE Unwinds(t)
    /\ UNCHANGED buffers
    /\ UNCHANGED seqvars

\* run_shell_command up to spawn(): the guard lives as long as `rope`, to the
\* end of the function.  line_to_char(1) and line_to_char(2) panic past
\* len_lines; spawn() starts the child or fails, and `?` returns the error.
shell_extract(t) ==
    /\ In(t, "shell")
    /\ IF line_to_char_ok(TheRope(t), 1) /\ line_to_char_ok(TheRope(t), 2)
       THEN \/ /\ views' = [views EXCEPT ![t] =
                    [@ EXCEPT !.pc = "shell_wait", !.child = "running"]]
               /\ UNCHANGED mutex
            \/ Returns(t, views[t].point, "err")
       ELSE Unwinds(t)
    /\ UNCHANGED buffers
    /\ UNCHANGED seqvars

\* The external process exits.
child_exits(t) ==
    /\ views[t].child = "running"
    /\ views' = [views EXCEPT ![t].child = "exited"]
    /\ UNCHANGED <<mutex, buffers>>
    /\ UNCHANGED seqvars

\* run_shell_command from wait_with_output() on: it returns once the child
\* has exited, with the output or an error.
shell_wait(t) ==
    /\ In(t, "shell_wait")
    /\ views[t].child = "exited"
    /\ \E out \in {"ok", "err"} : Returns(t, views[t].point, out)
    /\ UNCHANGED buffers
    /\ UNCHANGED seqvars

\* BufferView::buffer: returns the guard to the caller.
buffer_locked(t) ==
    /\ In(t, "buffer")
    /\ views' = [views EXCEPT ![t] = [Idle(@.point, "returned") EXCEPT !.guard = TRUE]]
    /\ UNCHANGED <<mutex, buffers>>
    /\ UNCHANGED seqvars

\* The caller of buffer() drops the guard (code_widget.rs: at the end of the
\* statement that reads the rope).
drop_guard(t) ==
    /\ views[t].pc = "idle"
    /\ views[t].guard
    /\ views' = [views EXCEPT ![t].guard = FALSE]
    /\ Unlock(BufferOf(t))
    /\ UNCHANGED buffers
    /\ UNCHANGED seqvars

\* The steps that end what a thread has begun, once it has the lock.
Finish(t) ==
    \/ forward_char_locked(t)
    \/ end_of_line_first(t)
    \/ end_of_line_second(t)
    \/ start_of_line_first(t)
    \/ goto_line_locked(t)
    \/ goto_end_first(t)
    \/ goto_char_locked(t)
    \/ insert_locked(t)
    \/ delete_locked(t)
    \/ shell_extract(t)
    \/ child_exits(t)
    \/ shell_wait(t)
    \/ buffer_locked(t)
    \/ drop_guard(t)

InitLock ==
    /\ StoreIs(Buffer_new) /\ last = NoCall
    /\ point = [v \in Views |-> BufferView_new]
    /\ panicked = "none"
    /\ disk = NoDisk
    /\ result = NoResult
    /\ mutex = [s \in Stores |-> Mutex_new]
    /\ \E string \in LockRopes :
        buffers = [s \in Stores |->
                    IF s = "X" THEN Buffer_from_string(string) ELSE Buffer_new]
    /\ views = [t \in Threads |-> Idle(BufferView_new, "none")]

NextLock ==
    \/ \E t \in Threads :
        \/ \E e \in Menu(t) : call(t, e[1], e[2])
        \/ lock_unwrap(t)
        \/ Finish(t)
    \/ backward_char_call("T1")

SpecLock == InitLock /\ [][NextLock]_vars

\* The two threads that share X, alone.
Sharing == {t \in Threads : BufferOf(t) = "X"}

NextShared ==
    \/ \E t \in Sharing :
        \/ \E e \in Menu(t) : call(t, e[1], e[2])
        \/ lock_unwrap(t)
        \/ Finish(t)
    \/ backward_char_call("T1")

SpecShared == InitLock /\ [][NextShared]_vars

\* The same with scheduling: a thread that holds the lock goes on (its steps
\* do not wait; the child process, `echo`, exits; the caller of buffer()
\* drops the guard at the end of its statement), and a thread that waits in
\* lock() gets the mutex at some time when it is released again and again.
SpecSharedFair ==
    SpecShared /\ \A t \in Sharing : SF_vars(lock_unwrap(t)) /\ WF_vars(Finish(t))

\* ------------------------------------------------------------- claims
\* In the action formulas below, last' names the call a step makes, the
\* unprimed variables the state it is made in, the primed ones its result.
Returned == panicked' = "none"

\* C1: after any sequence of public operations through any number of views
\* on one buffer, every point satisfies 0 <= start <= end <= len_chars.
C1_PointsInRange ==
    \A v \in Views :
        /\ 0 <= point[v].start
        /\ point[v].start <= point[v].end
        /\ point[v].end <= len_chars(rope)

\* C2: no sequence of public calls reaches a delete_at_point whose assertion
\* end <= len_chars fails.
C2_AssertNeverFails == panicked # "assert"

\* C3: insert_at_point(text) with start <= len_chars gives
\* old[0..start) ++ text ++ old[start..), the point collapsed at
\* start + len(text), and the buffer marked modified.
C3_InsertAtPoint ==
    [][(last'.op = "insert_at_point" /\ point[last'.v].start <= len_chars(rope)) =>
        LET v == last'.v
            t == last'.text
            s == point[last'.v].start
        IN /\ Returned
           /\ Len(rope') = Len(rope) + Len(t)
           /\ \A i \in 1..s : rope'[i] = rope[i]
           /\ \A i \in 1..Len(t) : rope'[s + i] = t[i]
           /\ \A i \in (s + 1)..Len(rope) : rope'[i + Len(t)] = rope[i]
           /\ point'[v] = Point(s + Len(t), s + Len(t))
           /\ is_modified' = TRUE
           /\ (rope = <<>> => rope' = t /\ point'[v] = Point(Len(t), Len(t)))]_vars

\* C3 witness: a text of the longest length was inserted in the middle of a line.
C3_Witness ==
    /\ last.op = "insert_at_point"
    /\ panicked = "none"
    /\ last.text = <<"b", "\n">>
    /\ rope = <<"a", "b", "\n">>
    /\ point[last.v] = Point(3, 3)
    /\ is_modified

\* C4: delete_at_point on a collapsed point p..p with p <= len_chars removes
\* exactly the character at p when p < len_chars and nothing when
\* p = len_chars; the other characters keep their order, the point stays p..p.
C4_DeleteCollapsed ==
    [][(/\ last'.op = "delete_at_point"
        /\ point[last'.v].start = point[last'.v].end
        /\ point[last'.v].end <= len_chars(rope)) =>
        LET v == last'.v
            p == point[last'.v].start
        IN /\ Returned
           /\ point'[v] = Point(p, p)
           /\ IF p < Len(rope)
              THEN /\ Len(rope') = Len(rope) - 1
                   /\ \A i \in 1..p : rope'[i] = rope[i]
                   /\ \A i \in (p + 2)..Len(rope) : rope'[i - 1] = rope[i]
              ELSE rope' = rope]_vars

\* C4 witness: the middle character of "a\nb" was deleted by a collapsed point.
C4_Witness ==
    /\ last.op = "delete_at_point"
    /\ panicked = "none"
    /\ rope = <<"a", "b">>
    /\ point[last.v] = Point(1, 1)
    /\ is_modified

\* C4, the clamped case is reached too: a delete at the end of a full buffer.
C4_WitnessAtEnd ==
    /\ last.op = "delete_at_point"
    /\ panicked = "none"
    /\ point[last.v] = Point(Len(rope), Len(rope))
    /\ Len(rope) = MaxLen

C5_SelectionRemoved ==
    [][(/\ last'.op = "delete_at_point"
        /\ point[last'.v].start < point[last'.v].end
        /\ point[last'.v].end <= len_chars(rope)) =>
        LET s == point[last'.v].start
            e == point[last'.v].end
        IN /\ Returned
           /\ Len(rope') = Len(rope) - (e - s)
           /\ \A i \in 1..s : rope'[i] = rope[i]
           /\ \A i \in (e + 1)..Len(rope) : rope'[i - (e - s)] = rope[i]]_vars

\* C6: move_point_forward_char gives (end+1)..(end+1) if end < len_chars and
\* leaves the range unchanged otherwise; move_point_backward_char gives
\* (start-1)..(start-1) if start > 0 and leaves the range unchanged otherwise.
C6_CharMoves ==
    [][/\ (last'.op = "move_point_forward_char" =>
            LET p == point[last'.v]
            IN /\ Returned
               /\ point'[last'.v] =
                    IF p.end < len_chars(rope) THEN Point(p.end + 1, p.end + 1) ELSE p)
       /\ (last'.op = "move_point_backward_char" =>
            LET p == point[last'.v]
            IN /\ Returned
               /\ point'[last'.v] =
                    IF p.start > 0 THEN Point(p.start - 1, p.start - 1) ELSE p)]_vars

\* C6 witness: a forward move that advanced the point inside the buffer.
C6_Witness ==
    /\ last.op = "move_point_forward_char"
    /\ panicked = "none"
    /\ len_chars(rope) = MaxLen
    /\ point[last.v] = Point(MaxLen - 1, MaxLen - 1)

\* C6, the no-op cases are reached: backward called with the point at 0.
C6_WitnessAtStart ==
    /\ last.op = "move_point_backward_char"
    /\ panicked = "none"
    /\ point[last.v] = Point(0, 0)

\* C7: goto_char(offset) collapses the point to min(offset, len_chars) for
\* every offset, goto_start_of_buffer to 0, goto_end_of_buffer to len_chars;
\* none of them fails.
C7_Goto ==
    [][/\ (last'.op = "goto_char" =>
            LET m == IF last'.n <= len_chars(rope) THEN last'.n ELSE len_chars(rope)
            IN Returned /\ point'[last'.v] = Point(m, m))
       /\ (last'.op = "goto_start_of_buffer" =>
            Returned /\ point'[last'.v] = Point(0, 0))
       /\ (last'.op = "goto_end_of_buffer" =>
            Returned /\ point'[last'.v] = Point(len_chars(rope), len_chars(rope)))]_vars

\* C7 witness: goto_char with an offset past the end of a full buffer.
C7_Witness ==
    /\ last.op = "goto_char"
    /\ panicked = "none"
    /\ last.n > MaxLen
    /\ len_chars(rope) = MaxLen
    /\ point[last.v] = Point(MaxLen, MaxLen)

\* C8: goto_line(line) never fails and leaves the point collapsed at
\* line_to_char(min(line, len_lines)); for an existing line index that is the
\* offset of the line's first character: exactly `line` line breaks precede
\* it, and it is 0 or follows a line break.
C8_GotoLine ==
    [][last'.op = "goto_line" =>
        LET x == point'[last'.v].start
            l == IF last'.n <= len_lines(rope) THEN last'.n ELSE len_lines(rope)
        IN /\ Returned
           /\ point'[last'.v] = Point(x, x)
           /\ x = line_to_char(rope, l)
           /\ x <= len_chars(rope)
           /\ (last'.n < len_lines(rope) =>
                /\ Cardinality({i \in 1..x : rope[i] = "\n"}) = last'.n
                /\ (x = 0 \/ rope[x] = "\n"))]_vars

\* C8 witness: goto_line(1) on "a\nb" put the point on 'b'.
C8_Witness ==
    /\ last.op = "goto_line"
    /\ panicked = "none"
    /\ last.n = 1
    /\ rope = <<"a", "\n", "b">>
    /\ point[last.v] = Point(2, 2)

\* C9: goto_line with a line index past the last line collapses the point to
\* the first character of the last line (0..0 on a one-line buffer).
C9_ClampToLastLine ==
    [][(last'.op = "goto_line" /\ last'.n >= len_lines(rope)) =>
        LET x == line_to_char(rope, len_lines(rope) - 1)
        IN Returned /\ point'[last'.v] = Point(x, x)]_vars

\* C9 as amended: goto_line with a line index past the last line collapses
\* the point to len_chars, the end of the buffer.
C9_ClampToEnd ==
    [][(last'.op = "goto_line" /\ last'.n >= len_lines(rope)) =>
        Returned /\ point'[last'.v] = Point(len_chars(rope), len_chars(rope))]_vars

\* C9 witness: goto_line past the only line of "ab" left the point at 2..2.
C9_Witness ==
    /\ last.op = "goto_line"
    /\ panicked = "none"
    /\ last.n > len_lines(rope)
    /\ rope = <<"a", "b">>
    /\ point[last.v] = Point(2, 2)

\* C10: move_point_start_of_line sets both offsets to
\* line_to_char(char_to_line(start)): the first character of the line that
\* contained start, <= the old start, with no line break in between, and a
\* second application does not move the point.
C10_LineStart ==
    [][last'.op = "move_point_start_of_line" =>
        LET s == point[last'.v].start
            x == point'[last'.v].start
        IN /\ Returned
           /\ point'[last'.v] = Point(x, x)
           /\ x = line_to_char(rope, char_to_line(rope, s))
           /\ x <= s
           /\ (x = 0 \/ rope[x] = "\n")
           /\ \A i \in (x + 1)..s : rope[i] # "\n"
           /\ line_to_char(rope, char_to_line(rope, x)) = x]_vars

\* C10 for a point inside the buffer (start <= len_chars): there the
\* operation returns and everything C10 says holds.
C10_LineStartInRange ==
    [][(last'.op = "move_point_start_of_line"
            /\ point[last'.v].start <= len_chars(rope)) =>
        LET s == point[last'.v].start
            x == point'[last'.v].start
        IN /\ Returned
           /\ point'[last'.v] = Point(x, x)
           /\ x = line_to_char(rope, char_to_line(rope, s))
           /\ x <= s
           /\ (x = 0 \/ rope[x] = "\n")
           /\ \A i \in (x + 1)..s : rope[i] # "\n"
           /\ line_to_char(rope, char_to_line(rope, x)) = x]_vars

\* C10, a second application directly after the first leaves the point alone.
C10_LineStartTwice ==
    [][(/\ last.op = "move_point_start_of_line"
        /\ last'.op = "move_point_start_of_line"
        /\ last'.v = last.v) =>
        point'[last'.v] = point[last'.v]]_vars

\* C11: move_point_end_of_line collapses the point to len_chars when the line
\* containing end is line 0 (however many lines there are) and to
\* line_to_char(line + 1) - 1 otherwise; for every in-range point this
\* neither underflows nor indexes a line past len_lines, and the result is
\* within [0, len_chars].
C11_LineEnd ==
    [][(last'.op = "move_point_end_of_line"
            /\ point[last'.v].start <= point[last'.v].end
            /\ point[last'.v].end <= len_chars(rope)) =>
        LET k == Cardinality({i \in 1..point[last'.v].end : rope[i] = "\n"})
            x == point'[last'.v].start
        IN /\ Returned
           /\ point'[last'.v] = Point(x, x)
           /\ k + 1 <= len_lines(rope)
           /\ (k = 0 => x = len_chars(rope))
           /\ (k # 0 => line_to_char(rope, k + 1) >= 1
                        /\ x = line_to_char(rope, k + 1) - 1)
           /\ 0 <= x /\ x <= len_chars(rope)]_vars

\* C11 witness: from line 0 of the three-line "a\n\n" the point went to len_chars.
C11_Witness ==
    /\ last.op = "move_point_end_of_line"
    /\ panicked = "none"
    /\ rope = <<"a", "\n", "\n">>
    /\ point[last.v] = Point(3, 3)

\* C11, the other branch is reached: on "\n\nb" a point ended just before
\* the break of line 1.
C11_WitnessLaterLine ==
    /\ last.op = "move_point_end_of_line"
    /\ panicked = "none"
    /\ rope = <<"\n", "\n", "b">>
    /\ point[last.v] = Point(1, 1)

\* The offset at which line k of r ends: just before the line break that
\* terminates it, or len_chars when the line is the last and has no break.
EndOfLine(r, k) ==
    LET from == line_to_char(r, k)
        breaks == {i \in (from + 1)..Len(r) : r[i] = "\n"}
    IN IF breaks = {} THEN Len(r)
       ELSE (CHOOSE i \in breaks : \A j \in breaks : i <= j) - 1

\* C12: for a point whose end lies on a line k >= 1, move_point_end_of_line
\* leaves the point on line k, collapsed at the end of that line.
C12_EndOfSameLine ==
    [][(/\ last'.op = "move_point_end_of_line"
        /\ point[last'.v].end <= len_chars(rope)
        /\ char_to_line(rope, point[last'.v].end) >= 1) =>
        LET k == char_to_line(rope, point[last'.v].end)
            x == EndOfLine(rope, k)
        IN /\ Returned
           /\ point'[last'.v] = Point(x, x)
           /\ char_to_line(rope, point'[last'.v].end) = k]_vars

\* C12 on the lines that a line break terminates: there the point ends just
\* before that break, on the same line.
C12_EndOfTerminatedLine ==
    [][(/\ last'.op = "move_point_end_of_line"
        /\ point[last'.v].end <= len_chars(rope)
        /\ char_to_line(rope, point[last'.v].end) >= 1
        /\ char_to_line(rope, point[last'.v].end) + 1 < len_lines(rope)) =>
        LET k == char_to_line(rope, point[last'.v].end)
            x == EndOfLine(rope, k)
        IN /\ Returned
           /\ point'[last'.v] = Point(x, x)
           /\ rope[x + 1] = "\n"
           /\ char_to_line(rope, point'[last'.v].end) = k]_vars

\* C13: save returns Ok without writing when the buffer is not modified or
\* has no path; otherwise it writes the full content to the path and clears
\* is_modified, so a second save right after a successful one writes nothing.
C13_Save ==
    [][/\ (last'.op = "save" =>
            IF ~is_modified \/ path = None
            THEN result'.kind = "ok" /\ last'.io = "none" /\ disk' = disk
            ELSE last'.io = "ok" =>
                    /\ result'.kind = "ok"
                    /\ disk'[path] = File(Encode(rope))
                    /\ is_modified' = FALSE)
       /\ ((last.op = "save" /\ last.io = "ok" /\ last'.op = "save") =>
            last'.io = "none")]_vars

\* C13, the part the code does: the early return, and the full write.
C13_SaveWrites ==
    [][last'.op = "save" =>
        IF ~is_modified \/ path = None
        THEN result'.kind = "ok" /\ last'.io = "none" /\ disk' = disk
        ELSE last'.io = "ok" =>
                result'.kind = "ok" /\ disk'[path] = File(Encode(rope))]_vars

\* C14: every insert_at_point and delete_at_point that returns sets
\* is_modified, and once it is true no operation other than a successful
\* save makes it false.
C14_ModifiedStays ==
    [][/\ ((last'.op \in {"insert_at_point", "delete_at_point"} /\ Returned) =>
            is_modified' = TRUE)
       /\ ((is_modified /\ ~(last'.op = "save" /\ last'.io = "ok")) =>
            is_modified' = TRUE)]_vars

\* C14 witness: a save whose write failed left the buffer modified.
C14_Witness ==
    /\ last.op = "save"
    /\ last.io = "write_failed"
    /\ result.kind = "err"
    /\ is_modified

\* C14, a save_as leaves the flag as well.
C14_WitnessSaveAs ==
    /\ last.op = "save_as"
    /\ last.io = "ok"
    /\ is_modified

\* The file at the buffer's path holds exactly the buffer's content.
DiskHasContent ==
    /\ disk[path].exists
    /\ DecodeOk(disk[path].bytes)
    /\ Decode(disk[path].bytes) = rope

\* C15: for a buffer that has a path, is_modified is true exactly when the
\* content differs from the content of the file at the path.
C15_DirtyIffDiffers ==
    path # None => (is_modified <=> ~DiskHasContent)

\* C15 as amended: for a buffer that has a path, is_modified false implies
\* that the file at the path holds exactly the content, or a cut-off prefix
\* of it when the last write to the file stopped midway.
C15_CleanMatchesDisk ==
    (path # None /\ ~is_modified) =>
        /\ disk[path].exists
        /\ Len(disk[path].bytes) <= Len(rope)
        /\ \A i \in 1..Len(disk[path].bytes) : <<disk[path].bytes[i]>> = Utf8(rope[i])
        /\ (~disk[path].torn => Len(disk[path].bytes) = Len(rope))

\* C15 witness: an unmodified loaded buffer whose file a save_as rewrote in full.
C15_Witness ==
    /\ path # None
    /\ ~is_modified
    /\ last.op = "save_as"
    /\ last.path = path
    /\ last.io = "ok"
    /\ Len(rope) = MaxLen - 1

\* C15, the converse fails: modified although the file holds the content.
C15_WitnessModifiedEqual ==
    /\ path # None
    /\ is_modified
    /\ DiskHasContent
    /\ last.op = "save"
    /\ last.io = "ok"

\* C16: save_as(p) leaves content, path and is_modified alone and, when the
\* write completes, leaves at p a file from which load(p) right afterwards
\* returns a buffer with exactly the content, whatever is_modified is.
C16_SaveAsRoundTrip ==
    [][/\ (last'.op = "save_as" =>
            /\ Returned
            /\ rope' = rope /\ path' = path /\ is_modified' = is_modified
            /\ (last'.io = "ok" => disk'[last'.path].exists /\ ~disk'[last'.path].torn))
       /\ ((last.op = "save_as" /\ last.io = "ok"
                /\ last'.op = "load" /\ last'.path = last.path) =>
            /\ result'.kind = "buffer"
            /\ result'.buffer.rope = rope)]_vars

\* C16 witness: a modified buffer without a path was written by save_as and
\* load returned its content "\nb".
C16_Witness ==
    /\ last.op = "load"
    /\ path = None
    /\ is_modified
    /\ rope = <<"\n", "b">>
    /\ result.kind = "buffer"
    /\ result.buffer.rope = rope

\* C17: Buffer::new gives an empty, unmodified buffer without a path;
\* Buffer::from_string(t) the content t, unmodified, without a path; a
\* successful Buffer::load(p) the path p, unmodified; a new view starts at 0..0.
C17_Constructors ==
    /\ (last.op = "new" =>
            /\ rope = <<>> /\ path = None /\ is_modified = FALSE
            /\ \A v \in Views : point[v] = Point(0, 0))
    /\ (last.op = "from_string" =>
            /\ rope = last.text /\ path = None /\ is_modified = FALSE
            /\ \A v \in Views : point[v] = Point(0, 0))
    /\ ((last.op = "load" /\ result.kind = "buffer") =>
            /\ result.buffer.path = last.path
            /\ result.buffer.is_modified = FALSE
            /\ Len(result.buffer.rope) = Len(disk[last.path].bytes))
    /\ (last.op = "view_new" => point[last.v] = Point(0, 0))

\* C17 witness: a view was created on an edited buffer of two characters.
C17_Witness ==
    /\ last.op = "view_new"
    /\ is_modified
    /\ Len(rope) = MaxLen - 1
    /\ point[last.v] = Point(0, 0)

\* C17, a load of the path succeeded on a file that a save_as wrote.
C17_WitnessLoad ==
    /\ last.op = "load"
    /\ path = None
    /\ result.kind = "buffer"
    /\ result.buffer.path = "p"
    /\ ~result.buffer.is_modified

MovementOps ==
    {"move_point_backward_char", "move_point_forward_char",
     "move_point_start_of_line", "move_point_end_of_line",
     "goto_char", "goto_line", "goto_start_of_buffer", "goto_end_of_buffer"}

\* C18: on an empty buffer every movement and goto operation, with any
\* argument, returns and leaves the point at 0..0.
C18_EmptyBufferMoves ==
    [][(rope = <<>> /\ point[last'.v] = Point(0, 0) /\ last'.op \in MovementOps) =>
        /\ Returned
        /\ point'[last'.v] = Point(0, 0)
        /\ rope' = <<>>]_vars

\* C18 witness: goto_line past the end was called on an empty buffer.
C18_Witness ==
    /\ last.op = "goto_line"
    /\ last.n > 1
    /\ panicked = "none"
    /\ rope = <<>>
    /\ point[last.v] = Point(0, 0)

\* C19: an insert or delete completed through one view is seen by the next
\* read of len_chars that another view makes (here in goto_end_of_buffer).
C19_EditVisible ==
    [][(/\ last.op \in {"insert_at_point", "delete_at_point"}
        /\ panicked = "none"
        /\ last'.v # last.v
        /\ last'.op = "goto_end_of_buffer") =>
        LET n == IF last.op = "insert_at_point" THEN last.len + Len(last.text)
                 ELSE IF point[last.v].end < last.len THEN last.len - 1
                 ELSE last.len
        IN /\ Returned
           /\ point'[last'.v] = Point(n, n)]_vars

\* C19 witness: B went to the end of a buffer that an edit has changed.
C19_Witness ==
    /\ last.op = "goto_end_of_buffer"
    /\ last.v = "B"
    /\ panicked = "none"
    /\ is_modified
    /\ point["A"] = Point(MaxText, MaxText)
    /\ point["B"] = Point(MaxLen, MaxLen)

\* C20: an insert or delete through one view leaves the point of every other
\* view unchanged, also when that point then lies past len_chars.
C20_OtherPointsKept ==
    [][last'.op \in {"insert_at_point", "delete_at_point"} =>
        \A w \in Views \ {last'.v} : point'[w] = point[w]]_vars

\* C20 witness: after a delete another view's point lies past len_chars.
C20_Witness ==
    /\ last.op = "delete_at_point"
    /\ panicked = "none"
    /\ \E w \in Views \ {last.v} : point[w].end > len_chars(rope)

\* Thread t is at a lock() call of the operation it runs.
AtLock(t) == views[t].pc # "idle" /\ ~views[t].in

\* The places of the movement and edit operations.
MoveEditPcs ==
    {"forward_char", "end_of_line", "end_of_line_idx", "start_of_line",
     "goto_line", "goto_end", "goto_char", "insert", "delete"}

\* C21: no operation calls lock() while the thread owns a guard of the
\* buffer, and every movement or edit operation that a thread has called
\* returns at some time, whatever the other thread of the buffer does.
C21_EveryCallReturns ==
    /\ [](\A t \in Threads : AtLock(t) => ~views[t].guard)
    /\ \A t \in Threads :
        (views[t].pc \in MoveEditPcs) ~>
            (views[t].pc = "idle" /\ views[t].out = "returned")

\* C21, the part about the lock: no lock() is called by a thread that owns a guard.
C21_NoLockWhileLocked ==
    \A t \in Threads : AtLock(t) => ~views[t].guard

\* C21, no deadlock: every call ends, by returning or by unwinding from a panic.
C21_EveryCallEnds ==
    \A t \in Threads : (views[t].pc # "idle") ~> (views[t].pc = "idle")

\* C22: a failure of the file system is returned as an error and is no panic:
\* load returns Err when the file cannot be opened or decoded, save and
\* save_as return Err when the write fails, and a failed save or save_as
\* leaves rope, path and is_modified as they were.
C22_IoErrorsReturned ==
    [][/\ (last'.op \in {"load", "save", "save_as"} => Returned)
       /\ ((last'.op = "load" /\ last'.io # "ok") => result'.kind = "err")
       /\ ((last'.op = "load" /\ last'.io = "ok"
                /\ ~DecodeOk(disk[last'.path].bytes)) => result'.kind = "err")
       /\ ((last'.op \in {"save", "save_as"}
                /\ last'.io \in {"create_failed", "write_failed"}) =>
            /\ result'.kind = "err"
            /\ rope' = rope /\ path' = path /\ is_modified' = is_modified)]_vars

\* C22, what holds: no panic, a failed open or create is returned, and the
\* buffer is left alone by every save, save_as and load.
C22_OpenErrorsReturned ==
    [][/\ (last'.op \in {"load", "save", "save_as"} =>
            /\ Returned
            /\ rope' = rope /\ path' = path /\ is_modified' = is_modified)
       /\ ((last'.op = "load" /\ last'.io # "ok") => result'.kind = "err")
       /\ ((last'.op \in {"save", "save_as"} /\ last'.io = "create_failed") =>
            result'.kind = "err")]_vars

\* C23: run_shell_command ends with Ok or Err on every content, also on a
\* buffer of fewer than three lines; it never panics.
C23_ShellReturns ==
    [][\A t \in Threads :
        (views[t].pc \in {"shell", "shell_wait"} /\ views[t].in
            /\ views'[t].pc = "idle") =>
        views'[t].out \in {"ok", "err"}]_vars

\* C23, what holds: on a buffer of two lines or more it ends with Ok or Err.
C23_ShellReturnsOnTwoLines ==
    [][\A t \in Threads :
        (views[t].pc \in {"shell", "shell_wait"} /\ views[t].in
            /\ len_lines(TheRope(t)) >= 2
            /\ views'[t].pc = "idle") =>
        views'[t].out \in {"ok", "err"}]_vars

\* The threads that own a guard of the mutex of buffer s.
Holders(s) == {t \in Threads : BufferOf(t) = s /\ views[t].guard}

\* Reads and writes of the Buffer are made by a thread that owns the guard,
\* and at most one thread owns a guard of a mutex, which is then locked.
MutualExclusion ==
    /\ [](\A s \in Stores :
            /\ Cardinality(Holders(s)) <= 1
            /\ Holders(s) # {} => mutex[s].locked)
    /\ [][\A t \in Threads :
            /\ (views[t].in /\ views'[t] # views[t]) => views[t].guard
            /\ (BufferOf(t) = "X" /\ buffers'["X"] # buffers["X"]) => Holders("X") # {}
            /\ (BufferOf(t) = "Y" /\ buffers'["Y"] # buffers["Y"]) => Holders("Y") # {}]_vars

\* C24: every read or write of the Buffer by an operation of a view is made
\* with the mutex held, at most one thread holds it, and every operation of
\* BufferView has released the lock when it returns.
C24_LockReleasedOnReturn ==
    /\ MutualExclusion
    /\ [](\A t \in Threads : views[t].pc = "idle" => ~views[t].guard)

\* C24 as amended: the same, except that buffer() returns the guard itself:
\* when a call ends the thread owns a guard exactly if the call was buffer()
\* and it returned, and then the mutex stays locked.
C24_LockReleasedButByBuffer ==
    /\ MutualExclusion
    /\ [][\A t \in Threads :
            (views[t].pc # "idle" /\ views'[t].pc = "idle") =>
                /\ views'[t].guard <=>
                       (views[t].pc = "buffer" /\ views'[t].out = "returned")
                /\ (views[t].guard /\ ~views'[t].guard) =>
                       ~mutex'[BufferOf(t)].locked]_vars

\* C24 witness: buffer() has returned to T1, which owns the guard, and T2
\* waits in lock().
C24_Witness ==
    /\ views["T1"].pc = "idle"
    /\ views["T1"].guard
    /\ views["T1"].out = "returned"
    /\ mutex["X"].locked
    /\ AtLock("T2")

\* C25: a movement command that locks twice ends without a panic, its point
\* collapsed at an offset <= len_chars as of its last lock, also when the
\* other thread edits between the two locks.
C25_SecondLock ==
    [][\A t \in Threads :
        (views[t].pc \in {"end_of_line_idx", "goto_line", "goto_char"}
            /\ views[t].in /\ views'[t].pc = "idle") =>
        /\ views'[t].out = "returned"
        /\ views'[t].point.start = views'[t].point.end
        /\ views'[t].point.end <= len_chars(TheRope(t))]_vars

\* C25, what holds: move_point_start_of_line and goto_end_of_buffer, whose
\* second lock is that of goto_line and goto_char.
C25_SecondLockClamped ==
    [][\A t \in Threads :
        (views[t].pc \in {"goto_line", "goto_char"}
            /\ views[t].in /\ views'[t].pc = "idle") =>
        /\ views'[t].out = "returned"
        /\ views'[t].point.start = views'[t].point.end
        /\ views'[t].point.end <= len_chars(TheRope(t))]_vars

\* C26: the lock is per buffer: a thread that calls lock() on its buffer goes
\* on whenever that buffer's mutex is unlocked, whoever holds or awaits the
\* mutex of the other buffer, and a step of a thread leaves the other buffer
\* and its mutex alone.
C26_LockPerBuffer ==
    /\ [](\A t \in Threads :
            (AtLock(t) /\ ~mutex[BufferOf(t)].locked) => ENABLED lock_unwrap(t))
    /\ [][\A t \in Threads, s \in Stores :
            (views'[t] # views[t] /\ s # BufferOf(t)) =>
                (mutex'[s] = mutex[s] /\ buffers'[s] = buffers[s])]_vars

\* C26 witness: T1 got the lock of X while T3 holds the lock of Y, and both
\* are inside an edit.
C26_Witness ==
    /\ In("T1", "insert")
    /\ In("T3", "delete")
    /\ mutex["X"].locked
    /\ mutex["Y"].locked

\* C27: with a single view, every reachable point is collapsed and within
\* [0, len_chars], and no assertion or index check fails.
C27_SingleView ==
    /\ panicked = "none"
    /\ point["A"].start = point["A"].end
    /\ point["A"].end <= len_chars(rope)

\* C27 witness: the single view has deleted at the end of a full buffer.
C27_Witness ==
    /\ last.op = "delete_at_point"
    /\ len_chars(rope) = MaxLen
    /\ point["A"] = Point(MaxLen, MaxLen)

\* C28: a movement or goto operation changes only the point of its own view:
\* content, path, is_modified, the files and the other views' points stay.
C28_MovesOnlyOwnPoint ==
    [][last'.op \in MovementOps =>
        /\ rope' = rope
        /\ path' = path
        /\ is_modified' = is_modified
        /\ disk' = disk
        /\ \A w \in Views \ {last'.v} : point'[w] = point[w]]_vars

\* C28 witness: A moved in an edited buffer while B's point is elsewhere.
C28_Witness ==
    /\ last.op = "move_point_end_of_line"
    /\ last.v = "A"
    /\ panicked = "none"
    /\ is_modified
    /\ point["A"] = Point(MaxLen, MaxLen)
    /\ point["B"] = Point(1, 1)

\* C29: a panic of an operation that holds the lock poisons the mutex; the
\* mutex stays poisoned, every later call that locks it panics, for every
\* view of that buffer, and the views of the other buffer get their lock.
C29_Poisoned ==
    [][\A t \in Threads :
        /\ (views[t].in /\ views'[t].pc = "idle" /\ views'[t].out = "panicked") =>
                mutex'[BufferOf(t)].poisoned
        /\ mutex[BufferOf(t)].poisoned => mutex'[BufferOf(t)].poisoned
        /\ (mutex[BufferOf(t)].poisoned /\ views[t].pc # "idle"
                /\ views'[t] # views[t]) =>
                (views'[t].pc = "idle" /\ views'[t].out = "panicked")
        /\ (~mutex[BufferOf(t)].poisoned /\ AtLock(t) /\ views'[t] # views[t]) =>
                (views'[t].in /\ views'[t].guard)]_vars

\* C29 witness: X is poisoned, both its threads have panicked, and T3 holds
\* the lock of Y inside an insert.
C29_Witness ==
    /\ mutex["X"].poisoned
    /\ views["T1"].out = "panicked"
    /\ views["T2"].out = "panicked"
    /\ ~mutex["Y"].poisoned
    /\ In("T3", "insert")

\* Thread t is in run_shell_command, past its lock().
InShell(t) == views[t].pc \in {"shell", "shell_wait"} /\ views[t].in

\* C30: run_shell_command owns the guard from the extraction of the text to
\* its return; while it does, the other thread of the buffer can begin calls
\* but passes no lock() and ends no operation that locks; and it returns
\* after spawn() only when the child has exited.
C30_ShellHoldsLock ==
    /\ [](\A t \in Threads : InShell(t) => (views[t].guard /\ mutex[BufferOf(t)].locked))
    /\ [][\A t \in Threads :
            /\ InShell(t) =>
                \A u \in Sharing \ {t} :
                    /\ views'[u].in = views[u].in
                    /\ views[u].pc # "idle" => views'[u] = views[u]
            /\ (views[t].pc = "shell_wait" /\ views'[t].pc # "shell_wait") =>
                    views[t].child = "exited"]_vars

\* C30 witness: the child of T1 runs and T2 waits in lock() for its delete.
C30_Witness ==
    /\ views["T1"].pc = "shell_wait"
    /\ views["T1"].child = "running"
    /\ views["T2"].pc = "delete"
    /\ AtLock("T2")

====
